---- MODULE Spec2Model ----
(***************************************************************************)
(* Model of src/mesh.py: the MeshTracker registry of points and segments,  *)
(* and mesh_from_polygons (tiling of the ordered regions, assembly of the  *)
(* surfaces, labelling of the registered segments, hand-off to the mesher).*)
(*                                                                         *)
(* Coordinates are integers in units of the match tolerance (atol = 1).    *)
(* Polygons are unions of unit cells of a grid; a grid node (i, j) is the  *)
(* point (Pitch*i, Pitch*j), so distinct nodes are farther apart than atol.*)
(* `None` of the source is 0 for an index and << >> for a resolution; a    *)
(* resolution r is << r >>.                                                *)
(***************************************************************************)
EXTENDS Integers, Sequences, FiniteSets, TLC

(* ------------------------------ bounds -------------------------------- *)
\* direct calls on a MeshTracker: points (0..MaxX) x (0..MaxY), MaxCalls calls
MaxX == 2
MaxY == 1
MaxCalls == 3
MaxLineCalls == 2
\* rings handed to xy_channel_loop_from_vertices have at most MaxRing edges
MaxRing == 3
\* builds: regions are rectangles of a GridW x GridH grid of cells
GridW == 3
GridH == 2
MaxRegions == 3
\* distance between neighbouring grid nodes, in units of atol
Pitch == 2
\* the grid of the example: the simulation window, in cells
ExampleW == 3
ExampleH == 4

(* ----------------------------- constants ------------------------------ *)
\* MeshTracker.__init__(self, model, atol=1E-3): the unit of length
Atol == 1

None == << >>
Resolutions == {None, <<1>>}

Min(S) == CHOOSE x \in S : \A y \in S : x <= y

(* ------------------------- shapely: predicates ------------------------ *)
\* a comparison that leaves out the points exactly tol apart
point_equals_strict(p, q, tol) ==
  (p[1] - q[1]) * (p[1] - q[1]) + (p[2] - q[2]) * (p[2] - q[2]) < tol * tol

\* Point.equals_exact(other, tolerance): Euclidean distance <= tolerance
point_equals_exact(p, q, tol) ==
  (p[1] - q[1]) * (p[1] - q[1]) + (p[2] - q[2]) * (p[2] - q[2]) <= tol * tol

\* LineString.equals_exact(other, tolerance): the coordinates are compared
\* one by one, in order
line_equals_exact(l, m, tol) ==
  /\ point_equals_exact(l[1], m[1], tol)
  /\ point_equals_exact(l[2], m[2], tol)

\* LineString.boundary.geoms: the two end points; none for a closed line
line_boundary(l) == IF l[1] = l[2] THEN << >> ELSE << l[1], l[2] >>

(* ----------------------------- gmsh model ----------------------------- *)
\* An entity's tag is its position in the list of its kind: the tag of the
\* next entity is the length of the list plus one.
EmptyModel ==
  [ points         |-> << >>,   \* [xy, mesh_size]
    lines          |-> << >>,   \* << tag of first point, tag of second point >>
    curve_loops    |-> << >>,   \* sequences of signed line tags
    plane_surfaces |-> << >>,   \* [loop, holes]
    physical       |-> << >> ]  \* [dim, tag, label]

NextTag(entities) == Len(entities) + 1

model_add_point(model, xy, mesh_size) ==
  [model EXCEPT !.points = Append(@, [xy |-> xy, mesh_size |-> mesh_size])]

model_add_line(model, p0, p1) ==
  [model EXCEPT !.lines = Append(@, << p0, p1 >>)]

model_add_curve_loop(model, edges) ==
  [model EXCEPT !.curve_loops = Append(@, edges)]

model_add_plane_surface(model, loop, holes) ==
  [model EXCEPT !.plane_surfaces = Append(@, [loop |-> loop, holes |-> holes])]

model_add_physical(model, dim, tag, label) ==
  [model EXCEPT !.physical = Append(@, [dim |-> dim, tag |-> tag, label |-> label])]

(* ----------------------------- MeshTracker ---------------------------- *)
NewMeshTracker(model) ==
  [ shapely_points   |-> << >>,
    gmsh_points      |-> << >>,
    shapely_xy_lines |-> << >>,
    gmsh_xy_lines    |-> << >>,
    model            |-> model,
    atol             |-> Atol ]

\* a scan that keeps the last registered point within atol instead of the first
get_point_index_last(mt, xy_point) ==
  LET hits == { i \in 1..Len(mt.shapely_points) :
                  point_equals_exact(xy_point, mt.shapely_points[i], mt.atol) }
  IN  IF hits = {} THEN 0 ELSE CHOOSE i \in hits : \A j \in hits : j <= i

\* the index of the first registered point within atol of xy_point, 0 for None
get_point_index(mt, xy_point) ==
  LET hits == { i \in 1..Len(mt.shapely_points) :
                  point_equals_exact(xy_point, mt.shapely_points[i], mt.atol) }
  IN  IF hits = {} THEN 0 ELSE Min(hits)

\* the body of the for loop of get_xy_line_index_and_orientation at a match
line_orientation(index, xy_line, shapely_line, tol) ==
  IF Len(line_boundary(xy_line)) # 2 \/ Len(line_boundary(shapely_line)) # 2
  THEN [index |-> index, orientation |-> TRUE, raised |-> TRUE]
  ELSE [index |-> index,
        orientation |-> point_equals_exact(line_boundary(xy_line)[1],
                                           line_boundary(shapely_line)[1], tol),
        raised |-> FALSE]

\* [index, orientation, raised]: index 0 and orientation TRUE (the truthy 1 of
\* the source) on a miss; raised when a boundary has no two end points to unpack
get_xy_line_index_and_orientation(mt, xy_point1, xy_point2) ==
  LET hits == { i \in 1..Len(mt.shapely_xy_lines) :
                  line_equals_exact(<< xy_point1, xy_point2 >>,
                                    mt.shapely_xy_lines[i], mt.atol) }
  IN  IF hits = {}
      THEN [index |-> 0, orientation |-> TRUE, raised |-> FALSE]
      ELSE line_orientation(Min(hits), << xy_point1, xy_point2 >>,
                            mt.shapely_xy_lines[Min(hits)], mt.atol)

\* an add_get_point that appends the handle but not the point it stands for
add_get_point_forgets(mt, shapely_xy_point, resolution, index) ==
  IF index # 0
  THEN [mt |-> mt, ret |-> mt.gmsh_points[index]]
  ELSE [ mt  |-> [mt EXCEPT
                    !.model = model_add_point(@, shapely_xy_point, resolution),
                    !.gmsh_points = Append(@, NextTag(mt.model.points))],
         ret |-> NextTag(mt.model.points) ]

\* an add_get_point that gives the point it finds the resolution of the query
add_get_point_rehints(mt, shapely_xy_point, resolution, index) ==
  IF index # 0
  THEN [mt |-> [mt EXCEPT !.model.points[mt.gmsh_points[index]].mesh_size = resolution],
        ret |-> mt.gmsh_points[index]]
  ELSE [ mt  |-> [mt EXCEPT
                    !.model = model_add_point(@, shapely_xy_point, resolution),
                    !.shapely_points = Append(@, shapely_xy_point),
                    !.gmsh_points = Append(@, NextTag(mt.model.points))],
         ret |-> NextTag(mt.model.points) ]

\* add_get_point once get_point_index has answered: [mt, ret]
add_get_point_at(mt, shapely_xy_point, resolution, index) ==
  IF index # 0
  THEN [mt |-> mt, ret |-> mt.gmsh_points[index]]
  ELSE [ mt  |-> [mt EXCEPT
                    !.model = model_add_point(@, shapely_xy_point, resolution),
                    !.shapely_points = Append(@, shapely_xy_point),
                    !.gmsh_points = Append(@, NextTag(mt.model.points))],
         ret |-> NextTag(mt.model.points) ]

add_get_point(mt, shapely_xy_point, resolution) ==
  add_get_point_at(mt, shapely_xy_point, resolution,
                   get_point_index(mt, shapely_xy_point))

\* add_get_xy_line on a miss, once both end points are registered: a1 and a2
\* are what add_get_point returned for them
add_get_xy_line_new(shapely_xy_point1, shapely_xy_point2, a1, a2) ==
  [ mt  |-> [a2.mt EXCEPT
               !.model = model_add_line(@, a1.ret, a2.ret),
               !.shapely_xy_lines = Append(@, << shapely_xy_point1, shapely_xy_point2 >>),
               !.gmsh_xy_lines = Append(@, NextTag(a2.mt.model.lines))],
    ret |-> NextTag(a2.mt.model.lines), orientation |-> TRUE, raised |-> FALSE ]

add_get_xy_line_points(shapely_xy_point1, shapely_xy_point2, a1) ==
  add_get_xy_line_new(shapely_xy_point1, shapely_xy_point2, a1,
                      add_get_point(a1.mt, shapely_xy_point2, None))

\* add_get_xy_line once get_xy_line_index_and_orientation has answered q
add_get_xy_line_at(mt, shapely_xy_point1, shapely_xy_point2, q) ==
  IF q.raised
  THEN [mt |-> mt, ret |-> 0, orientation |-> TRUE, raised |-> TRUE]
  ELSE IF q.index # 0
  THEN [mt |-> mt, ret |-> mt.gmsh_xy_lines[q.index],
        orientation |-> q.orientation, raised |-> FALSE]
  ELSE add_get_xy_line_points(shapely_xy_point1, shapely_xy_point2,
                              add_get_point(mt, shapely_xy_point1, None))

\* [mt, ret, orientation, raised]
add_get_xy_line(mt, shapely_xy_point1, shapely_xy_point2) ==
  add_get_xy_line_at(mt, shapely_xy_point1, shapely_xy_point2,
    get_xy_line_index_and_orientation(mt, shapely_xy_point1, shapely_xy_point2))

\* edges.append(gmsh_line) or edges.append(-gmsh_line)
signed_edge(a) == IF a.orientation THEN a.ret ELSE -a.ret

\* the for loop of xy_channel_loop_from_vertices from pair i on: [mt, edges,
\* raised]; channel_edge is its body once add_get_xy_line has returned a
RECURSIVE channel_edges(_, _, _, _)
RECURSIVE channel_edge(_, _, _, _)
channel_edges(mt, vertices, i, edges) ==
  IF i > Len(vertices) - 1
  THEN [mt |-> mt, edges |-> edges, raised |-> FALSE]
  ELSE channel_edge(vertices, i, edges,
                    add_get_xy_line(mt, vertices[i], vertices[i + 1]))

channel_edge(vertices, i, edges, a) ==
  IF a.raised
  THEN [mt |-> a.mt, edges |-> edges, raised |-> TRUE]
  ELSE channel_edges(a.mt, vertices, i + 1, Append(edges, signed_edge(a)))

\* channel_loop = self.model.add_curve_loop(edges). What the geometry kernel
\* does with an empty list of edges is not decided by this code: emptyLoop is
\* "raises" or "accepts". [mt, ret, raised], ret the tag of the curve loop
add_curve_loop(e, emptyLoop) ==
  IF e.raised \/ (e.edges = << >> /\ emptyLoop = "raises")
  THEN [mt |-> e.mt, ret |-> 0, raised |-> TRUE]
  ELSE [mt |-> [e.mt EXCEPT !.model = model_add_curve_loop(@, e.edges)],
        ret |-> NextTag(e.mt.model.curve_loops), raised |-> FALSE]

xy_channel_loop_from_vertices(mt, vertices, emptyLoop) ==
  add_curve_loop(channel_edges(mt, vertices, 1, << >>), emptyLoop)

\* for vertex in MultiPoint(ring.coords): add_get_point(vertex, resolution)
RECURSIVE register_vertices(_, _, _, _)
register_vertices(mt, coords, i, resolution) ==
  IF i > Len(coords) THEN mt
  ELSE register_vertices(add_get_point(mt, coords[i], resolution).mt,
                         coords, i + 1, resolution)

\* the "Parse holes" loop of add_xy_surface from hole i on: [mt, hole_loops,
\* raised]; parse_hole is its body once the loop l of hole i is built
RECURSIVE parse_holes(_, _, _, _, _, _)
RECURSIVE parse_hole(_, _, _, _, _, _)
parse_holes(mt, interiors, i, resolution, hole_loops, emptyLoop) ==
  IF i > Len(interiors)
  THEN [mt |-> mt, hole_loops |-> hole_loops, raised |-> FALSE]
  ELSE parse_hole(interiors, i, resolution, hole_loops, emptyLoop,
         xy_channel_loop_from_vertices(
           register_vertices(mt, interiors[i], 1, resolution), interiors[i], emptyLoop))

parse_hole(interiors, i, resolution, hole_loops, emptyLoop, l) ==
  IF l.raised
  THEN [mt |-> l.mt, hole_loops |-> hole_loops, raised |-> TRUE]
  ELSE parse_holes(l.mt, interiors, i + 1, resolution, Append(hole_loops, l.ret),
                   emptyLoop)

\* plane_surface = self.model.add_plane_surface(channel_loop, holes=hole_loops)
add_plane_surface(hole_loops, l) ==
  IF l.raised
  THEN [mt |-> l.mt, ret |-> 0, raised |-> TRUE]
  ELSE [mt |-> [l.mt EXCEPT !.model = model_add_plane_surface(@, l.ret, hole_loops)],
        ret |-> NextTag(l.mt.model.plane_surfaces), raised |-> FALSE]

\* the "Parse boundary" part of add_xy_surface, h being what the holes gave
parse_boundary(shapely_xy_polygon, resolution, emptyLoop, h) ==
  IF h.raised
  THEN [mt |-> h.mt, ret |-> 0, raised |-> TRUE]
  ELSE add_plane_surface(h.hole_loops,
         xy_channel_loop_from_vertices(
           register_vertices(h.mt, shapely_xy_polygon.exterior, 1, resolution),
           shapely_xy_polygon.exterior, emptyLoop))

\* [mt, ret, raised]: ret is the tag of the plane surface. A MultiPolygon has no
\* attribute `interiors`: the first statement that reads it raises
add_xy_surface(mt, shapely_xy_polygon, resolution, emptyLoop) ==
  IF shapely_xy_polygon.type # "Polygon"
  THEN [mt |-> mt, ret |-> 0, raised |-> TRUE]
  ELSE parse_boundary(shapely_xy_polygon, resolution, emptyLoop,
         parse_holes(mt, shapely_xy_polygon.interiors, 1, resolution, << >>, emptyLoop))

(* ------------------- shapely: polygons on the grid -------------------- *)
\* A geometry is [type, cells, exterior, interiors, geoms]: `cells` is its area
\* (a set of unit cells << i, j >> covering [i, i+1] x [j, j+1]), `exterior`
\* and `interiors` are closed rings of points (first = last), as in
\* Polygon.exterior.coords; `geoms` are the parts of a MultiPolygon.
Node(i, j) == << Pitch * i, Pitch * j >>

Rect(x0, x1, y0, y1) == { << i, j >> : i \in x0..(x1 - 1), j \in y0..(y1 - 1) }

ReverseSeq(s) == [k \in 1..Len(s) |-> s[Len(s) + 1 - k]]

EmptyPolygon ==
  [type |-> "Polygon", cells |-> {}, exterior |-> << >>, interiors |-> << >>,
   geoms |-> << >>]

\* the directed unit edges of the boundary of S, S on the left of each
BoundaryEdges(S) ==
  UNION { {e \in { << << c[1], c[2] >>,         << c[1] + 1, c[2] >>,     << c[1], c[2] - 1 >> >>,
                   << << c[1] + 1, c[2] >>,     << c[1] + 1, c[2] + 1 >>, << c[1] + 1, c[2] >> >>,
                   << << c[1] + 1, c[2] + 1 >>, << c[1], c[2] + 1 >>,     << c[1], c[2] + 1 >> >>,
                   << << c[1], c[2] + 1 >>,     << c[1], c[2] >>,         << c[1] - 1, c[2] >> >> } :
              e[3] \notin S} : c \in S }

EdgeDir(e) == << e[2][1] - e[1][1], e[2][2] - e[1][2] >>

\* the edge that follows e on its ring; where the boundary touches itself in
\* a node, the ring turns right, which keeps a hole apart from the shell
NextEdge(E, e) ==
  LET out == { f \in E : f[1] = e[2] }
      d   == EdgeDir(e)
  IN  IF Cardinality(out) = 1 THEN CHOOSE f \in out : TRUE
      ELSE CHOOSE f \in out : EdgeDir(f) = << d[2], -d[1] >>

RECURSIVE WalkRing(_, _, _, _)
WalkRing(E, e0, e, acc) ==
  LET n == NextEdge(E, e)
  IN  IF n = e0 THEN Append(acc, e) ELSE WalkRing(E, e0, n, Append(acc, e))

\* the closed ring of the corners met along the unit edges es, in grid nodes
RingOfEdges(es) ==
  LET n    == Len(es)
      idx  == { i \in 1..n : EdgeDir(es[IF i = 1 THEN n ELSE i - 1]) # EdgeDir(es[i]) }
      kth(k) == CHOOSE i \in idx : Cardinality({ j \in idx : j <= i }) = k
      open == [k \in 1..Cardinality(idx) |-> Node(es[kth(k)][1][1], es[kth(k)][1][2])]
  IN  Append(open, open[1])

MinCell(S) == CHOOSE c \in S : \A d \in S : c[2] < d[2] \/ (c[2] = d[2] /\ c[1] <= d[1])

MinEdge(E) ==
  CHOOSE e \in E : \A f \in E :
    \/ e[1][2] < f[1][2]
    \/ e[1][2] = f[1][2] /\ e[1][1] < f[1][1]
    \/ e[1] = f[1] /\ (e[2][2] < f[2][2] \/ (e[2][2] = f[2][2] /\ e[2][1] <= f[2][1]))

\* the rings of a set of boundary edges, as sequences of unit edges
RECURSIVE RingsOf(_, _)
RingsOf(E, rest) ==
  IF rest = {} THEN << >>
  ELSE LET e0 == MinEdge(rest)
           w  == WalkRing(E, e0, e0, << >>)
       IN  << w >> \o RingsOf(E, rest \ { w[k] : k \in 1..Len(w) })

RECURSIVE Grow(_, _)
Grow(S, comp) ==
  LET nxt == comp \cup { c \in S : \E d \in comp :
                           \/ c[1] = d[1] /\ (c[2] = d[2] + 1 \/ c[2] = d[2] - 1)
                           \/ c[2] = d[2] /\ (c[1] = d[1] + 1 \/ c[1] = d[1] - 1) }
  IN  IF nxt = comp THEN comp ELSE Grow(S, nxt)

\* the connected parts of S (cells joined along an edge)
RECURSIVE Parts(_)
Parts(S) ==
  IF S = {} THEN << >>
  ELSE LET comp == Grow(S, { MinCell(S) }) IN << comp >> \o Parts(S \ comp)

\* one connected part as a Polygon; the shell is walked counter-clockwise and
\* the holes clockwise when ccw, and the other way round otherwise
PolygonOfPart(S, ccw) ==
  LET E     == BoundaryEdges(S)
      rings == RingsOf(E, E)
      ring(k) == IF ccw THEN RingOfEdges(rings[k]) ELSE ReverseSeq(RingOfEdges(rings[k]))
  IN  [type |-> "Polygon", cells |-> S, exterior |-> ring(1),
       interiors |-> [k \in 1..(Len(rings) - 1) |-> ring(k + 1)], geoms |-> << >>]

\* the geometry an overlay operation returns for the area S: rings come out
\* with clockwise shells
GeometryOfCells(S) ==
  LET parts == Parts(S)
  IN  IF Len(parts) = 0 THEN EmptyPolygon
      ELSE IF Len(parts) = 1 THEN PolygonOfPart(S, FALSE)
      ELSE [type |-> "MultiPolygon", cells |-> S, exterior |-> << >>,
            interiors |-> << >>,
            geoms |-> [k \in 1..Len(parts) |-> PolygonOfPart(parts[k], FALSE)]]

\* the operands of the difference taken the other way round
differenceSwapped(a, b) == GeometryOfCells(b.cells \ a.cells)

\* a.difference(b)
difference(a, b) == GeometryOfCells(a.cells \ b.cells)

\* the rectangle a caller builds with Polygon([...]), walked from its lower left
\* corner in the caller's direction
CallerPolygon(x0, x1, y0, y1, ccw) ==
  LET cw == << Node(x0, y0), Node(x0, y1), Node(x1, y1), Node(x1, y0), Node(x0, y0) >>
  IN  [type |-> "Polygon", cells |-> Rect(x0, x1, y0, y1),
       exterior |-> IF ccw THEN ReverseSeq(cw) ELSE cw,
       interiors |-> << >>, geoms |-> << >>]

(* ------------------------------- state ------------------------------- *)
VARIABLES
  pc,                   \* where mesh_from_polygons stands; "calls" for direct calls
  polygon_dict,         \* the caller's regions, in order: [name, polygon]
  resolutions,          \* None, or << table >> with table a function of names
  polygons_tiled_dict,  \* the resolved layers, in insertion order: [name, polygon]
  lower_index,          \* outer loop of the tiling (1-based)
  higher_index,         \* inner loop of the tiling (1-based)
  diff_polygon,
  surface_index,        \* position in reversed(polygons_tiled_dict.items())
  meshtracker,          \* the MeshTracker, with the gmsh model it writes to
  generated,            \* geometry.generate_mesh has been called
  calls                 \* direct calls made so far, with what they returned

vars == << pc, polygon_dict, resolutions, polygons_tiled_dict, lower_index,
           higher_index, diff_polygon, surface_index, meshtracker, generated, calls >>

build_vars == << polygon_dict, resolutions, polygons_tiled_dict, lower_index,
                 higher_index, diff_polygon, surface_index, generated >>

(* --------------------- direct calls on a MeshTracker ------------------ *)
Points == (0..MaxX) \X (0..MaxY)

Far(p, q) == ~point_equals_exact(p, q, Atol)

RECURSIVE Paths(_)
Paths(n) ==
  IF n = 1 THEN { << p >> : p \in Points }
  ELSE { Append(s, p) : s \in Paths(n - 1), p \in Points }

\* the rings handed over directly: closed vertex lists (last = first) of
\* 2..MaxRing edges whose consecutive vertices are farther apart than atol
Rings ==
  { Append(s, s[1]) : s \in { t \in UNION { Paths(n) : n \in 2..MaxRing } :
        /\ \A k \in 1..(Len(t) - 1) : Far(t[k], t[k + 1])
        /\ Far(t[Len(t)], t[1]) } }

InitCalls ==
  /\ pc = "calls"
  /\ polygon_dict = << >>
  /\ resolutions = None
  /\ polygons_tiled_dict = << >>
  /\ lower_index = 0
  /\ higher_index = 0
  /\ diff_polygon = EmptyPolygon
  /\ surface_index = 0
  /\ meshtracker = NewMeshTracker(EmptyModel)
  /\ generated = FALSE
  /\ calls = << >>

\* the call op(args) returned: r.mt is the tracker it leaves, ret what it gave
\* back (<< 0 >> from a call that raised); points, lines and loops count what
\* is registered and built once it has returned
Returned(op, args, r, ret) ==
  /\ meshtracker' = r.mt
  /\ calls' = Append(calls, [op |-> op, args |-> args, ret |-> ret,
                             points |-> Len(r.mt.shapely_points),
                             lines |-> Len(r.mt.shapely_xy_lines),
                             loops |-> Len(r.mt.model.curve_loops)])
  /\ UNCHANGED << pc, build_vars >>

ReturnedPoint(args, r) == Returned("add_get_point", args, r, << r.ret >>)

ReturnedLine(args, r) ==
  ~r.raised /\ Returned("add_get_xy_line", args, r, << r.ret, r.orientation >>)

ReturnedLoop(args, r) == Returned("xy_channel_loop_from_vertices", args, r, << r.ret >>)

CallAddGetPoint(p, resolution) ==
  /\ pc = "calls"
  /\ ReturnedPoint(<< p, resolution >>, add_get_point(meshtracker, p, resolution))

CallAddGetXYLine(p1, p2) ==
  /\ pc = "calls"
  /\ ReturnedLine(<< p1, p2 >>, add_get_xy_line(meshtracker, p1, p2))

CallLoopFromVertices(vertices, emptyLoop) ==
  /\ pc = "calls"
  /\ ReturnedLoop(<< vertices >>,
                  xy_channel_loop_from_vertices(meshtracker, vertices, emptyLoop))

PointCall ==
  \E p \in Points, resolution \in Resolutions :
    Len(calls) < MaxCalls /\ CallAddGetPoint(p, resolution)

NextPoints == PointCall

SpecPoints == InitCalls /\ [][NextPoints]_vars

LinePointCall ==
  \E p \in Points : Len(calls) < MaxLineCalls /\ CallAddGetPoint(p, None)

LineCall ==
  \E p1, p2 \in Points :
    Len(calls) < MaxLineCalls /\ Far(p1, p2) /\ CallAddGetXYLine(p1, p2)

LoopCall ==
  \E vertices \in Rings, emptyLoop \in {"raises", "accepts"} :
    Len(calls) < MaxLineCalls /\ CallLoopFromVertices(vertices, emptyLoop)

NextLines == LinePointCall \/ LineCall \/ LoopCall

SpecLines == InitCalls /\ [][NextLines]_vars

(* -------------------------- mesh_from_polygons ------------------------ *)
RegionName(i) == "R" \o ToString(i - 1)

\* << x0, x1, y0, y1 >> of the rectangles of the grid
RectParams ==
  { r \in (0..GridW) \X (0..GridW) \X (0..GridH) \X (0..GridH) :
      r[1] < r[2] /\ r[3] < r[4] }

\* the caller passes no table (the default), or one with a hint for the first
\* region only
ResolutionTables == { None, << [name \in { RegionName(1) } |-> << 1 >>] >> }

InitBuild ==
  \E n \in 1..MaxRegions :
    \E rects \in [1..n -> RectParams], ccw \in BOOLEAN, table \in ResolutionTables :
      /\ pc = "tile"
      /\ polygon_dict =
           [i \in 1..n |->
              [name |-> RegionName(i),
               polygon |-> CallerPolygon(rects[i][1], rects[i][2], rects[i][3],
                                         rects[i][4], ccw)]]
      /\ resolutions = table
      /\ polygons_tiled_dict = << >>
      /\ lower_index = n
      /\ higher_index = 0
      /\ diff_polygon = EmptyPolygon
      /\ surface_index = 0
      /\ meshtracker = NewMeshTracker(EmptyModel)
      /\ generated = FALSE
      /\ calls = << >>

\* a slice that stops one entry early
FirstHigherShort(lower) == lower - 2

\* reversed(list(enumerate(polygon_dict.items()))[:lower_index]) starts at the
\* entry just before lower_index
FirstHigher(lower) == lower - 1

\* for lower_index, (lower_name, lower_polygon) in reversed(...):
\*     diff_polygon = lower_polygon
TileOuter ==
  /\ pc = "tile"
  /\ diff_polygon' = polygon_dict[lower_index].polygon
  /\ higher_index' = FirstHigher(lower_index)
  /\ pc' = "subtract"
  /\ UNCHANGED << polygon_dict, resolutions, polygons_tiled_dict, lower_index,
                  surface_index, meshtracker, generated, calls >>

\* diff_polygon = diff_polygon.difference(higher_polygon)
TileSubtract ==
  /\ pc = "subtract"
  /\ higher_index >= 1
  /\ diff_polygon' = difference(diff_polygon, polygon_dict[higher_index].polygon)
  /\ higher_index' = higher_index - 1
  /\ UNCHANGED << pc, polygon_dict, resolutions, polygons_tiled_dict, lower_index,
                  surface_index, meshtracker, generated, calls >>

\* a tiling loop that leaves before the entry of index 0 has had its turn
TileStoreLeavesEarly ==
  /\ pc = "subtract"
  /\ higher_index < 1
  /\ polygons_tiled_dict' =
       Append(polygons_tiled_dict,
              [name |-> polygon_dict[lower_index].name, polygon |-> diff_polygon])
  /\ lower_index' = lower_index - 1
  /\ pc' = IF lower_index <= 2 THEN "tracker" ELSE "tile"
  /\ UNCHANGED << polygon_dict, resolutions, higher_index, diff_polygon,
                  surface_index, meshtracker, generated, calls >>

\* polygons_tiled_dict[lower_name] = diff_polygon
TileStore ==
  /\ pc = "subtract"
  /\ higher_index < 1
  /\ polygons_tiled_dict' =
       Append(polygons_tiled_dict,
              [name |-> polygon_dict[lower_index].name, polygon |-> diff_polygon])
  /\ lower_index' = lower_index - 1
  /\ pc' = IF lower_index = 1 THEN "tracker" ELSE "tile"
  /\ UNCHANGED << polygon_dict, resolutions, higher_index, diff_polygon,
                  surface_index, meshtracker, generated, calls >>

\* meshtracker = MeshTracker(model=model)
NewTracker ==
  /\ pc = "tracker"
  /\ meshtracker' = NewMeshTracker(meshtracker.model)
  /\ surface_index' = 1
  /\ pc' = "surfaces"
  /\ UNCHANGED << polygon_dict, resolutions, polygons_tiled_dict, lower_index,
                  higher_index, diff_polygon, generated, calls >>

\* the entry at position k of reversed(polygons_tiled_dict.items())
ReversedItem(tiled, k) == tiled[Len(tiled) + 1 - k]

\* resolutions[polygon_name] if polygon_name in resolutions.keys() else None
ResolutionOf(table, polygon_name) ==
  IF polygon_name \in DOMAIN table THEN table[polygon_name] ELSE None

\* model.add_physical(plane_surface, f"{polygon_name}") after add_xy_surface
\* returned s; the exception of add_xy_surface ends the build
SurfaceAdded(polygon_name, s) ==
  IF s.raised
  THEN /\ meshtracker' = s.mt
       /\ pc' = "failed"
       /\ UNCHANGED surface_index
  ELSE /\ meshtracker' =
            [s.mt EXCEPT !.model = model_add_physical(@, 2, s.ret, polygon_name)]
       /\ surface_index' = surface_index + 1
       /\ pc' = IF surface_index = Len(polygons_tiled_dict)
                THEN "duplicates" ELSE "surfaces"

\* one turn of: for polygon_name, polygon in reversed(polygons_tiled_dict.items())
\* `resolutions.keys()` raises when resolutions is None
AddSurface(emptyLoop) ==
  /\ pc = "surfaces"
  /\ IF resolutions = None
     THEN /\ pc' = "failed"
          /\ UNCHANGED << meshtracker, surface_index >>
     ELSE SurfaceAdded(
            ReversedItem(polygons_tiled_dict, surface_index).name,
            add_xy_surface(
              meshtracker,
              ReversedItem(polygons_tiled_dict, surface_index).polygon,
              ResolutionOf(resolutions[1],
                           ReversedItem(polygons_tiled_dict, surface_index).name),
              emptyLoop))
  /\ UNCHANGED << polygon_dict, resolutions, polygons_tiled_dict, lower_index,
                  higher_index, diff_polygon, generated, calls >>

\* gmsh.model.occ.removeAllDuplicates(): the registry is not touched
RemoveDuplicates ==
  /\ pc = "duplicates"
  /\ pc' = "labels"
  /\ UNCHANGED << build_vars, meshtracker, calls >>

\* f"line_{i}"
LineLabel(i) == "line_" \o ToString(i)

\* i = 0; for line in meshtracker.gmsh_xy_lines: add_physical(line, f"line_{i}"); i += 1
LinePhysicals(gmsh_xy_lines) ==
  [k \in 1..Len(gmsh_xy_lines) |->
     [dim |-> 1, tag |-> gmsh_xy_lines[k], label |-> LineLabel(k - 1)]]

LabelLines ==
  /\ pc = "labels"
  /\ meshtracker' =
       [meshtracker EXCEPT !.model.physical = @ \o LinePhysicals(meshtracker.gmsh_xy_lines)]
  /\ pc' = "mesh"
  /\ UNCHANGED << build_vars, calls >>

\* a generate_mesh placed before the loop that labels the lines
GenerateMeshEarly ==
  /\ pc = "labels"
  /\ generated' = TRUE
  /\ pc' = "done"
  /\ UNCHANGED << polygon_dict, resolutions, polygons_tiled_dict, lower_index,
                  higher_index, diff_polygon, surface_index, meshtracker, calls >>

\* geometry.generate_mesh(dim=2, verbose=True)
GenerateMesh ==
  /\ pc = "mesh"
  /\ generated' = TRUE
  /\ pc' = "done"
  /\ UNCHANGED << polygon_dict, resolutions, polygons_tiled_dict, lower_index,
                  higher_index, diff_polygon, surface_index, meshtracker, calls >>

AddSurfaceStep == \E emptyLoop \in {"raises", "accepts"} : AddSurface(emptyLoop)

Next ==
  \/ TileOuter
  \/ TileSubtract
  \/ TileStore
  \/ NewTracker
  \/ AddSurfaceStep
  \/ RemoveDuplicates
  \/ LabelLines
  \/ GenerateMesh

Spec == InitBuild /\ [][Next]_vars

(* ------------------------------ __main__ ------------------------------ *)
\* The example: clad is the upper half of the window and box the lower half,
\* core is a rectangle laid over them; core and clad have a resolution.
ExampleMid == ExampleH \div 2

ExampleCores ==
  { r \in (0..ExampleW) \X (0..ExampleW) \X (0..ExampleH) \X (0..ExampleH) :
      r[1] < r[2] /\ r[3] < r[4] }

ExampleResolutions == << [name \in {"core", "clad"} |->
                            IF name = "core" THEN << 1 >> ELSE << 20 >>] >>

InitExample ==
  \E core \in ExampleCores, ccw \in [1..3 -> BOOLEAN] :
    /\ pc = "tile"
    /\ polygon_dict =
         << [name |-> "core",
             polygon |-> CallerPolygon(core[1], core[2], core[3], core[4], ccw[1])],
            [name |-> "clad",
             polygon |-> CallerPolygon(0, ExampleW, ExampleMid, ExampleH, ccw[2])],
            [name |-> "box",
             polygon |-> CallerPolygon(0, ExampleW, 0, ExampleMid, ccw[3])] >>
    /\ resolutions = ExampleResolutions
    /\ polygons_tiled_dict = << >>
    /\ lower_index = 3
    /\ higher_index = 0
    /\ diff_polygon = EmptyPolygon
    /\ surface_index = 0
    /\ meshtracker = NewMeshTracker(EmptyModel)
    /\ generated = FALSE
    /\ calls = << >>

SpecExample == InitExample /\ [][Next]_vars

(* ------------------------------- claims ------------------------------- *)
\* two points no farther apart than atol
WithinAtol(p, q) ==
  (p[1] - q[1]) * (p[1] - q[1]) + (p[2] - q[2]) * (p[2] - q[2]) <= Atol * Atol

\* the segments l and m join the same two points within atol, in either direction
SameEdge(l, m) ==
  \/ WithinAtol(l[1], m[1]) /\ WithinAtol(l[2], m[2])
  \/ WithinAtol(l[1], m[2]) /\ WithinAtol(l[2], m[1])

\* the tiling loop has finished
TilingDone == pc \in {"tracker", "surfaces", "duplicates", "labels", "mesh", "done", "failed"}

\* every surface has been assembled
SurfacesDone == pc \in {"duplicates", "labels", "mesh", "done"}

Regions == 1..Len(polygon_dict)

InputCells(i) == polygon_dict[i].polygon.cells

InputUnion(I) == UNION { InputCells(j) : j \in I }

\* the resolved layer stored under the name of region i
Layer(i) ==
  (CHOOSE e \in { polygons_tiled_dict[k] : k \in 1..Len(polygons_tiled_dict) } :
     e.name = polygon_dict[i].name).polygon

\* region i comes at position i of the assembly loop, which has gone past it,
\* or stopped in it with an exception
Assembled(i) ==
  /\ resolutions # None
  /\ \/ SurfacesDone
     \/ pc \in {"surfaces", "failed"} /\ surface_index > i
     \/ pc = "failed" /\ surface_index = i

FailedIn(i) == pc = "failed" /\ surface_index = i

\* the surfaces that carry the name of region i as their physical label
SurfacesOf(i) ==
  { k \in 1..Len(meshtracker.model.physical) :
      /\ meshtracker.model.physical[k].dim = 2
      /\ meshtracker.model.physical[k].label = polygon_dict[i].name }

\* C1 as stated: after the tiling loop every region is clipped by the later
\* entries only, so a later entry keeps all of its area (last declared wins).
C1_LastDeclaredWins ==
  TilingDone =>
    \A i \in Regions :
      Layer(i).cells = InputCells(i) \ InputUnion({ j \in Regions : j > i })

\* C1 amended: after the tiling loop every region is clipped by the earlier
\* entries only (first declared wins): the first entry is the caller's polygon
\* unchanged, and a later entry that lies inside an earlier one resolves to the
\* empty layer.
C1_FirstDeclaredWins ==
  TilingDone =>
    /\ \A i \in Regions :
         Layer(i).cells = InputCells(i) \ InputUnion({ j \in Regions : j < i })
    /\ Layer(1) = polygon_dict[1].polygon
    /\ \A i \in Regions :
         (\E j \in Regions : j < i /\ InputCells(i) \subseteq InputCells(j))
            => Layer(i).cells = {}

\* a background R0 followed by a smaller foreground R1 inside it, tiled
C1_Witness ==
  /\ TilingDone
  /\ Len(polygon_dict) = 2
  /\ InputCells(2) \subseteq InputCells(1)
  /\ InputCells(2) # InputCells(1)

\* C2: after the tiling loop the resolved layers of two distinct regions share
\* no area, and together they cover exactly the union of the input polygons.
C2_LayersPartitionUnion ==
  TilingDone =>
    /\ \A i, j \in Regions : i # j => Layer(i).cells \cap Layer(j).cells = {}
    /\ UNION { Layer(i).cells : i \in Regions } = InputUnion(Regions)

\* three regions, each overlapping the next, tiled
C2_Witness ==
  /\ TilingDone
  /\ Len(polygon_dict) = 3
  /\ InputCells(1) \cap InputCells(2) # {}
  /\ InputCells(2) \cap InputCells(3) # {}
  /\ InputCells(3) \ (InputCells(1) \cup InputCells(2)) # {}

\* C3 as stated: once all surfaces are assembled the registry holds no two
\* segments that join the same two points within atol, in either direction, so
\* an edge shared by two layers is one segment used by both loops.
C3_SharedEdgeRegisteredOnce ==
  SurfacesDone =>
    \A i, j \in 1..Len(meshtracker.shapely_xy_lines) :
      SameEdge(meshtracker.shapely_xy_lines[i], meshtracker.shapely_xy_lines[j]) => i = j

IsLineCall(k) == calls[k].op = "add_get_xy_line"

\* C4 as stated: add_get_xy_line(B, A) right after add_get_xy_line(A, B) returns
\* the same handle with the orientation flag false and adds no segment.
C4_ReverseQuerySameSegment ==
  \A k \in 1..(Len(calls) - 1) :
    ( /\ IsLineCall(k) /\ IsLineCall(k + 1)
      /\ calls[k + 1].args = << calls[k].args[2], calls[k].args[1] >> )
    => /\ calls[k + 1].ret[1] = calls[k].ret[1]
       /\ calls[k + 1].ret[2] = FALSE
       /\ calls[k + 1].lines = calls[k].lines

\* the points registered before call k
RegisteredBefore(k) ==
  SubSeq(meshtracker.shapely_points, 1, IF k = 1 THEN 0 ELSE calls[k - 1].points)

\* the first of the points reg within atol of p, 0 when there is none
FirstWithin(reg, p) ==
  IF \E i \in 1..Len(reg) : WithinAtol(reg[i], p)
  THEN CHOOSE i \in 1..Len(reg) :
         /\ WithinAtol(reg[i], p)
         /\ \A j \in 1..(i - 1) : ~WithinAtol(reg[j], p)
  ELSE 0

C6_SameCoordinatesIdempotent ==
  \A k \in 1..(Len(calls) - 1) :
    calls[k].args[1] = calls[k + 1].args[1]
      => /\ calls[k + 1].ret = calls[k].ret
         /\ calls[k + 1].points = calls[k].points

\* a point is registered by a miss and asked for again, with another resolution
C6_Witness ==
  /\ Len(calls) = 3
  /\ calls[2].points = calls[1].points + 1
  /\ calls[3].args[1] = calls[2].args[1]
  /\ calls[3].args[2] # calls[2].args[2]

\* C7 as stated: a region whose resolved layer is empty is skipped by the
\* assembly loop: the build does not fail in it, no surface carries its name
\* and no loop is built for it.
C7_EmptyLayerSkipped ==
  \A i \in Regions :
    (Assembled(i) /\ Layer(i).cells = {})
      => /\ ~FailedIn(i)
         /\ SurfacesOf(i) = {}
         /\ \A k \in 1..Len(meshtracker.model.curve_loops) :
              meshtracker.model.curve_loops[k] # << >>

\* C8 as stated: a region whose resolved layer has k >= 2 connected parts gets
\* exactly k surfaces, each with its name, and the build does not fail in it.
C8_OneSurfacePerPart ==
  \A i \in Regions :
    (Assembled(i) /\ Len(Layer(i).geoms) >= 2)
      => /\ ~FailedIn(i)
         /\ Cardinality(SurfacesOf(i)) = Len(Layer(i).geoms)

IsLoopCall(k) == calls[k].op = "xy_channel_loop_from_vertices"

DistinctVertices(vertices) == { vertices[i] : i \in 1..Len(vertices) }

\* C9 as stated: xy_channel_loop_from_vertices on a vertex list with fewer than
\* 3 distinct vertices fails and creates no curve loop.
C9_DegenerateRingRejected ==
  \A k \in 1..Len(calls) :
    (IsLoopCall(k) /\ Cardinality(DistinctVertices(calls[k].args[1])) < 3)
      => /\ calls[k].ret = << 0 >>
         /\ calls[k].loops = IF k = 1 THEN 0 ELSE calls[k - 1].loops

\* the physical labels of dimension 1, in the order they were attached
LinePhysicalsOf(model) ==
  LET idx == { k \in 1..Len(model.physical) : model.physical[k].dim = 1 }
  IN  [n \in 1..Cardinality(idx) |->
         model.physical[CHOOSE k \in idx : Cardinality({ j \in idx : j <= k }) = n]]

\* C10 as stated: once the segments are labelled, the k-th registered segment
\* carries the one label line_(k-1) and nothing else carries a line label, and
\* every geometric edge of the model (two end points within atol, in either
\* direction) has exactly one label.
C10_OneLabelPerEdge ==
  pc \in {"mesh", "done"} =>
    /\ Len(LinePhysicalsOf(meshtracker.model)) = Len(meshtracker.gmsh_xy_lines)
    /\ \A k \in 1..Len(meshtracker.gmsh_xy_lines) :
         /\ LinePhysicalsOf(meshtracker.model)[k].tag = meshtracker.gmsh_xy_lines[k]
         /\ LinePhysicalsOf(meshtracker.model)[k].label = "line_" \o ToString(k - 1)
    /\ \A i \in 1..Len(meshtracker.shapely_xy_lines) :
         Cardinality({ j \in 1..Len(meshtracker.shapely_xy_lines) :
                         SameEdge(meshtracker.shapely_xy_lines[i],
                                  meshtracker.shapely_xy_lines[j]) }) = 1

\* C11: the mesher has been invoked only when every region has its labelled
\* surface and every registry segment its label, and a build that failed has
\* not invoked it.
C11_MesherOnlyOnCompleteModel ==
  /\ generated =>
       /\ pc = "done"
       /\ Len(meshtracker.model.plane_surfaces) = Len(polygon_dict)
       /\ \A i \in Regions : Cardinality(SurfacesOf(i)) = 1
       /\ Len(LinePhysicalsOf(meshtracker.model)) = Len(meshtracker.gmsh_xy_lines)
       /\ \A k \in 1..Len(meshtracker.gmsh_xy_lines) :
            LinePhysicalsOf(meshtracker.model)[k].tag = meshtracker.gmsh_xy_lines[k]
  /\ pc = "failed" => ~generated

\* the mesher has been invoked on a model of three regions
C11_Witness ==
  /\ generated
  /\ Len(polygon_dict) = 3
  /\ Len(meshtracker.gmsh_xy_lines) >= 4

\* twice the signed area of a closed ring: negative when it runs clockwise
RECURSIVE Shoelace(_, _)
Shoelace(ring, k) ==
  IF k >= Len(ring) THEN 0
  ELSE ring[k][1] * ring[k + 1][2] - ring[k + 1][1] * ring[k][2] + Shoelace(ring, k + 1)

\* the unit edges, as pairs of points, along which a cell of A meets a cell of B
InterfaceEdges(A, B) ==
  { << Node(c[1] + 1, c[2]), Node(c[1] + 1, c[2] + 1) >> :
       c \in { c \in A \cup B : \/ c \in A /\ << c[1] + 1, c[2] >> \in B
                                \/ c \in B /\ << c[1] + 1, c[2] >> \in A } }
  \cup
  { << Node(c[1], c[2] + 1), Node(c[1] + 1, c[2] + 1) >> :
       c \in { c \in A \cup B : \/ c \in A /\ << c[1], c[2] + 1 >> \in B
                                \/ c \in B /\ << c[1], c[2] + 1 >> \in A } }

\* the point a lies on the segment l
OnSegment(a, l) ==
  /\ (a[1] - l[1][1]) * (l[2][2] - l[1][2]) = (a[2] - l[1][2]) * (l[2][1] - l[1][1])
  /\ (a[1] - l[1][1]) * (a[1] - l[2][1]) <= 0
  /\ (a[2] - l[1][2]) * (a[2] - l[2][2]) <= 0

\* the registered segments that run along the unit edge e
SegmentsAlong(e) ==
  { k \in 1..Len(meshtracker.shapely_xy_lines) :
      /\ OnSegment(e[1], meshtracker.shapely_xy_lines[k])
      /\ OnSegment(e[2], meshtracker.shapely_xy_lines[k]) }

\* the line labels attached to the segments that run along the unit edge e
LabelsAlong(e) ==
  { ph.label : ph \in { LinePhysicalsOf(meshtracker.model)[n] :
                          n \in 1..Len(LinePhysicalsOf(meshtracker.model)) }
                      \cap { ph \in { LinePhysicalsOf(meshtracker.model)[n] :
                                        n \in 1..Len(LinePhysicalsOf(meshtracker.model)) } :
                               \E k \in SegmentsAlong(e) :
                                 ph.tag = meshtracker.gmsh_xy_lines[k] } }

\* the input of the example: core, clad, box in that order, core drawn
\* clockwise strictly inside the window and laid over both clad and box
IsExample ==
  /\ Len(polygon_dict) = 3
  /\ polygon_dict[1].name = "core"
  /\ polygon_dict[2].name = "clad"
  /\ polygon_dict[3].name = "box"
  /\ Shoelace(polygon_dict[1].polygon.exterior, 1) < 0
  /\ Shoelace(polygon_dict[2].polygon.exterior, 1) < 0
  /\ Shoelace(polygon_dict[3].polygon.exterior, 1) > 0
  /\ InputCells(1) \cap InputCells(2) # {}
  /\ InputCells(1) \cap InputCells(3) # {}
  /\ \A c \in InputCells(1) : c[1] >= 1 /\ c[1] + 1 < ExampleW
                              /\ c[2] >= 1 /\ c[2] + 1 < ExampleH

\* C12 as stated: the example does not fail and, once labelled, has exactly 3
\* surfaces, one per name, and along every piece of the interfaces core/clad
\* and core/box runs one registered segment, with one label.
C12_ExampleInterfacesShared ==
  IsExample =>
    /\ pc # "failed"
    /\ pc \in {"mesh", "done"} =>
         /\ Len(meshtracker.model.plane_surfaces) = 3
         /\ \A i \in Regions : Cardinality(SurfacesOf(i)) = 1
         /\ \A e \in InterfaceEdges(Layer(1).cells, Layer(2).cells)
                     \cup InterfaceEdges(Layer(1).cells, Layer(3).cells) :
              /\ Cardinality(SegmentsAlong(e)) = 1
              /\ Cardinality(LabelsAlong(e)) = 1

\* C13: the tiling walks the regions from the last to the first; while region
\* i is being resolved, the polygons i-1, i-2, ... down to the one after
\* higher_index, and no others, have been subtracted from it; each stored layer
\* is its polygon minus all the earlier ones and none of the later ones, and
\* the layer of the first region is its polygon unchanged.
C13_TilingWalksDownward ==
  /\ pc \in {"tile", "subtract"} =>
       Len(polygons_tiled_dict) = Len(polygon_dict) - lower_index
  /\ pc = "subtract" =>
       /\ higher_index \in 0..(lower_index - 1)
       /\ diff_polygon.cells =
            InputCells(lower_index)
              \ InputUnion({ j \in Regions : higher_index < j /\ j < lower_index })
  /\ \A k \in 1..Len(polygons_tiled_dict) :
       /\ polygons_tiled_dict[k].name = polygon_dict[Len(polygon_dict) + 1 - k].name
       /\ polygons_tiled_dict[k].polygon.cells =
            InputCells(Len(polygon_dict) + 1 - k)
              \ InputUnion({ j \in Regions : j < Len(polygon_dict) + 1 - k })
  /\ TilingDone =>
       polygons_tiled_dict[Len(polygon_dict)] = polygon_dict[1]

\* the last of three regions has had the second one subtracted, which it
\* overlaps, and the first one, which it also overlaps, comes next
C13_Witness ==
  /\ pc = "subtract"
  /\ lower_index = 3
  /\ higher_index = 1
  /\ InputCells(3) \cap InputCells(2) # {}
  /\ diff_polygon.cells \cap InputCells(1) # {}

\* the call that takes the step from this state to the next
NewCall == calls'[Len(calls')]

\* C14: a call of add_get_point on a point within atol of a registered one
\* leaves the tracker and its model as they were: the registered points, their
\* handles, their coordinates and their mesh sizes, whatever resolution it is
\* given.
C14_HitChangesNothing ==
  [][ ( /\ Len(calls') = Len(calls) + 1
        /\ NewCall.op = "add_get_point"
        /\ \E i \in 1..Len(meshtracker.shapely_points) :
             WithinAtol(meshtracker.shapely_points[i], NewCall.args[1]) )
      => meshtracker' = meshtracker ]_vars

\* a point registered with a resolution is then found from other coordinates
\* by a call that carries no resolution
C14_Witness ==
  /\ Len(calls) = 2
  /\ calls[1].points = 1
  /\ calls[1].args[2] = << 1 >>
  /\ calls[2].args[1] # calls[1].args[1]
  /\ calls[2].args[2] = None
  /\ calls[2].ret = calls[1].ret
  /\ meshtracker.model.points = << [xy |-> calls[1].args[1], mesh_size |-> << 1 >>] >>

RegistryEmpty ==
  meshtracker.shapely_points = << >> /\ meshtracker.shapely_xy_lines = << >>

RegistryUnchanged ==
  /\ meshtracker.shapely_points' = meshtracker.shapely_points
  /\ meshtracker.gmsh_points' = meshtracker.gmsh_points
  /\ meshtracker.shapely_xy_lines' = meshtracker.shapely_xy_lines
  /\ meshtracker.gmsh_xy_lines' = meshtracker.gmsh_xy_lines

\* C15 as stated: the registry stays empty until every layer is resolved, no
\* point or segment is registered once the first surface has been emitted, and
\* the mesher is invoked with every surface emitted.
C15_RegistryFullBeforeFirstSurface ==
  [][ /\ ~TilingDone' => RegistryEmpty'
      /\ Len(meshtracker.model.plane_surfaces) >= 1 => RegistryUnchanged
      /\ generated' => Len(meshtracker.model.plane_surfaces') = Len(polygon_dict) ]_vars

\* C15 amended: the registry and the model stay empty until every layer is
\* resolved, and the layers do not change afterwards; points, segments and
\* surfaces are added only by the turns of the assembly loop, region by region;
\* nothing is registered or emitted once that loop has ended, and the mesher is
\* invoked with every surface emitted.
C15_RegistryFilledDuringAssembly ==
  [][ /\ ~TilingDone' =>
           RegistryEmpty' /\ meshtracker.model.plane_surfaces' = << >>
      /\ TilingDone => polygons_tiled_dict' = polygons_tiled_dict
      /\ ( ~RegistryUnchanged
           \/ meshtracker.model.plane_surfaces' # meshtracker.model.plane_surfaces )
         => /\ pc = "surfaces"
            /\ Len(polygons_tiled_dict) = Len(polygon_dict)
      /\ generated' => Len(meshtracker.model.plane_surfaces') = Len(polygon_dict) ]_vars

\* the tags of the lines of curve loop k
LoopLines(k) ==
  { IF meshtracker.model.curve_loops[k][n] < 0
    THEN -meshtracker.model.curve_loops[k][n]
    ELSE meshtracker.model.curve_loops[k][n] :
      n \in 1..Len(meshtracker.model.curve_loops[k]) }

\* two surfaces are emitted and the loop of the second uses a segment that was
\* registered after every segment of the first
C15_Witness ==
  /\ Len(meshtracker.model.plane_surfaces) = 2
  /\ Len(meshtracker.model.curve_loops) = 2
  /\ \E t \in LoopLines(2) : \A u \in LoopLines(1) : t > u

\* add_get_point on the points of seq from the k-th on, in that order, with no
\* resolution: [mt, rets], rets the handles returned so far; RegisterStep is
\* the k-th call once it has returned a
RECURSIVE RegisterFrom(_, _, _)
RECURSIVE RegisterStep(_, _, _, _)
RegisterFrom(seq, k, acc) ==
  IF k > Len(seq) THEN acc
  ELSE RegisterStep(seq, k, acc, add_get_point(acc.mt, seq[k], None))

RegisterStep(seq, k, acc, a) ==
  RegisterFrom(seq, k + 1, [mt |-> a.mt, rets |-> Append(acc.rets, a.ret)])

RegisterAll(seq) ==
  RegisterFrom(seq, 1, [mt |-> NewMeshTracker(EmptyModel), rets |-> << >>])

\* the orders in which n points can be registered
Orders(n) == { f \in [1..n -> 1..n] : \A a, b \in 1..n : f[a] = f[b] => a = b }

\* the points of the calls made so far, which are pairwise different
CalledPoints == [k \in 1..Len(calls) |-> calls[k].args[1]]

CalledPointsDiffer ==
  \A a, b \in 1..Len(calls) : CalledPoints[a] = CalledPoints[b] => a = b

\* r, what registering the called points in the order f gave, has as many
\* registered points as this run and groups the points by handle as this run
SameResult(f, r) ==
  /\ Len(r.mt.shapely_points) = Len(meshtracker.shapely_points)
  /\ \A a, b \in 1..Len(calls) :
       (r.rets[a] = r.rets[b]) <=> (calls[f[a]].ret = calls[f[b]].ret)

SameAsInOrder(f) ==
  SameResult(f, RegisterAll([k \in 1..Len(calls) |-> CalledPoints[f[k]]]))

\* C16 as stated: the points registered by this run, registered in any other
\* order, give the same number of registered points and the same grouping of
\* the points by handle.
C16_OrderInsensitive ==
  CalledPointsDiffer => \A f \in Orders(Len(calls)) : SameAsInOrder(f)

\* being within atol of each other is transitive on the called points
CalledPointsCluster ==
  \A a, b, c \in 1..Len(calls) :
    (WithinAtol(CalledPoints[a], CalledPoints[b])
       /\ WithinAtol(CalledPoints[b], CalledPoints[c]))
    => WithinAtol(CalledPoints[a], CalledPoints[c])

\* C16 amended: when being within atol is transitive on the points, every
\* order gives the same number of registered points and the same grouping, and
\* two points have one handle exactly when they are within atol of each other.
C16_OrderInsensitiveOnClusters ==
  (CalledPointsDiffer /\ CalledPointsCluster) =>
    /\ \A f \in Orders(Len(calls)) : SameAsInOrder(f)
    /\ \A a, b \in 1..Len(calls) :
         (calls[a].ret = calls[b].ret) <=> WithinAtol(CalledPoints[a], CalledPoints[b])

\* three different points, two of them within atol of each other and the
\* third far from both, have been registered
C16_Witness ==
  /\ Len(calls) = 3
  /\ CalledPointsDiffer
  /\ CalledPointsCluster
  /\ \E a, b \in 1..3 : a # b /\ calls[a].ret = calls[b].ret
  /\ \E a, b \in 1..3 : calls[a].ret # calls[b].ret

\* the vertex list and the signed line tags of the loop built by call k
LoopVertices(k) == calls[k].args[1]

LoopEdges(k) == meshtracker.model.curve_loops[calls[k].ret[1]]

LineTag(edge) == IF edge < 0 THEN -edge ELSE edge

\* the model points where a signed line starts and ends, and their coordinates
StartTag(edge) ==
  meshtracker.model.lines[LineTag(edge)][IF edge < 0 THEN 2 ELSE 1]

EndTag(edge) ==
  meshtracker.model.lines[LineTag(edge)][IF edge < 0 THEN 1 ELSE 2]

XYOf(tag) == meshtracker.model.points[tag].xy

\* the registered segment behind a signed line: gmsh_xy_lines[i] = i
StoredLine(edge) == meshtracker.shapely_xy_lines[LineTag(edge)]

\* the loop of call k has one signed handle per pair of consecutive vertices
LoopHasEdgePerPair(k) == Len(LoopEdges(k)) = Len(LoopVertices(k)) - 1

\* a handle is negated exactly when the stored segment starts away from the
\* first vertex of the pair
LoopSignsFollowOrientation(k) ==
  \A n \in 1..Len(LoopEdges(k)) :
    (LoopEdges(k)[n] < 0)
      <=> ~WithinAtol(StoredLine(LoopEdges(k)[n])[1], LoopVertices(k)[n])

\* read with its sign, the n-th edge runs from within atol of the n-th vertex
\* to within atol of the next
LoopEdgesFollowVertices(k) ==
  \A n \in 1..Len(LoopEdges(k)) :
    /\ WithinAtol(XYOf(StartTag(LoopEdges(k)[n])), LoopVertices(k)[n])
    /\ WithinAtol(XYOf(EndTag(LoopEdges(k)[n])), LoopVertices(k)[n + 1])

\* each edge ends in the model point where the next begins, the last one
\* where the first begins
LoopEdgesChain(k) ==
  \A n \in 1..Len(LoopEdges(k)) :
    EndTag(LoopEdges(k)[n])
      = StartTag(LoopEdges(k)[IF n = Len(LoopEdges(k)) THEN 1 ELSE n + 1])

\* call k built a loop from a ring of at least 3 vertices that are pairwise
\* farther apart than atol
BuiltLoop(k) ==
  /\ IsLoopCall(k)
  /\ calls[k].ret # << 0 >>
  /\ Len(LoopVertices(k)) >= 4
  /\ LoopVertices(k)[Len(LoopVertices(k))] = LoopVertices(k)[1]
  /\ \A a, b \in 1..(Len(LoopVertices(k)) - 1) :
       a # b => ~WithinAtol(LoopVertices(k)[a], LoopVertices(k)[b])

\* C17 as stated: after any earlier calls, a loop built from a closed list of
\* distinct vertices has one signed handle per pair, negated exactly when the
\* stored orientation is opposite, and its edges, read with their signs, follow
\* the vertices within atol and chain into a closed sequence.
C17_LoopFollowsVertices ==
  \A k \in 1..Len(calls) :
    BuiltLoop(k) =>
      /\ LoopHasEdgePerPair(k)
      /\ LoopSignsFollowOrientation(k)
      /\ LoopEdgesFollowVertices(k)
      /\ LoopEdgesChain(k)

\* the region whose turn of the assembly loop comes next
AssembledName == ReversedItem(polygons_tiled_dict, surface_index).name

\* the hint of the region assembled next: its entry in the caller's table, and
\* none when it has no entry or the caller gave no table
AssembledHint ==
  IF resolutions # None /\ AssembledName \in DOMAIN resolutions[1]
  THEN resolutions[1][AssembledName]
  ELSE None

\* every resolved layer is one polygon with some area
LayersArePolygons ==
  \A k \in 1..Len(polygons_tiled_dict) :
    /\ polygons_tiled_dict[k].polygon.type = "Polygon"
    /\ polygons_tiled_dict[k].polygon.cells # {}

\* C18 as stated: every point created by a turn of the assembly loop has the
\* hint of the region of that turn, no hint when the region has no entry or
\* when the caller gave no table, and in that last case the turn does not fail.
C18_HintOfAssembledRegion ==
  [][ pc = "surfaces" =>
        /\ \A t \in (Len(meshtracker.model.points) + 1)..Len(meshtracker.model.points') :
             meshtracker.model.points'[t].mesh_size = AssembledHint
        /\ (resolutions = None /\ LayersArePolygons) => pc' # "failed" ]_vars

\* C19: no two registered points are within atol of each other, and each
\* registry list is as long as the list of its handles.
C19_RegisteredPointsApart ==
  /\ \A i, j \in 1..Len(meshtracker.shapely_points) :
       i # j => ~WithinAtol(meshtracker.shapely_points[i], meshtracker.shapely_points[j])
  /\ Len(meshtracker.shapely_points) = Len(meshtracker.gmsh_points)
  /\ Len(meshtracker.shapely_xy_lines) = Len(meshtracker.gmsh_xy_lines)

\* a point is registered, then a segment with one end at other coordinates
\* within atol of it and the other end far away: two points, one segment
C19_Witness ==
  /\ Len(calls) = 2
  /\ calls[1].op = "add_get_point"
  /\ IsLineCall(2)
  /\ calls[2].args[1] # calls[1].args[1]
  /\ WithinAtol(calls[2].args[1], calls[1].args[1])
  /\ Len(meshtracker.shapely_points) = 2
  /\ Len(meshtracker.shapely_xy_lines) = 1

\* the registered points within atol of p, by position
HitsOf(p) ==
  { i \in 1..Len(meshtracker.shapely_points) :
      WithinAtol(meshtracker.shapely_points[i], p) }

\* C20: add_get_point never removes, moves or renumbers what is registered;
\* what it returns is fixed by the registry and the query: the handle of the
\* earliest registered point within atol, or that of the point it creates; and
\* with two or more registered points within atol it changes nothing.
C20_FirstMatchWins ==
  [][ ( Len(calls') = Len(calls) + 1 /\ NewCall.op = "add_get_point" ) =>
        /\ SubSeq(meshtracker.shapely_points', 1, Len(meshtracker.shapely_points))
             = meshtracker.shapely_points
        /\ SubSeq(meshtracker.gmsh_points', 1, Len(meshtracker.gmsh_points))
             = meshtracker.gmsh_points
        /\ SubSeq(meshtracker.model.points', 1, Len(meshtracker.model.points))
             = meshtracker.model.points
        /\ NewCall.ret =
             IF HitsOf(NewCall.args[1]) = {}
             THEN << Len(meshtracker.model.points) + 1 >>
             ELSE << meshtracker.gmsh_points[Min(HitsOf(NewCall.args[1]))] >>
        /\ Cardinality(HitsOf(NewCall.args[1])) >= 2 => meshtracker' = meshtracker ]_vars

\* two points far from each other are registered, then a point within atol of
\* both is asked for and gets the handle of the first
C20_Witness ==
  /\ Len(calls) = 3
  /\ calls[2].ret # calls[1].ret
  /\ WithinAtol(calls[3].args[1], calls[1].args[1])
  /\ WithinAtol(calls[3].args[1], calls[2].args[1])
  /\ calls[3].ret = calls[1].ret
  /\ Len(meshtracker.shapely_points) = 2

====
